---- MODULE Spec2Model ----
(***************************************************************************)
(* Model of the post-dispatch scheduler of post-to-social (scheduler.js):  *)
(* the cron-driven polling loop, the SQLite post store it reads and        *)
(* writes, and the per-platform publish attempts.                          *)
(*                                                                         *)
(* Every `await` of the source is a suspension point.  One action of the   *)
(* model is the settlement of the awaited promise (the SQL statement       *)
(* executes, or the publisher returns or throws) together with all the     *)
(* synchronous code that follows it up to the next `await`.                *)
(*                                                                         *)
(* Time is counted in clock units; the cron timer fires every              *)
(* PollInterval units.  Instants written to the store (ISO-8601 UTC        *)
(* strings in the source, compared as text by SQLite) are modelled by the  *)
(* clock value they denote.                                                *)
(***************************************************************************)
EXTENDS Integers, Sequences, FiniteSets, TLC

\* ---------------------------------------------------------------- bounds
MaxTime       == 4   \* the clock stops here
MaxConcurrent == 2   \* invocations of checkAndPostScheduledPosts tracked at once
MaxFaults     == 1   \* store operations that may fail in one behaviour
MaxMembers    == 5   \* member entries in one series request

\* ------------------------------------------------------ program constants
RetryAttempts == 3   \* process.env.RETRY_ATTEMPTS || 3
PollInterval  == 2   \* cron '* * * * *': one firing per minute = 2 clock units
RetryDelay    == 2   \* RETRY_DELAY (configurable), in clock units
SeriesLimit   == 4   \* README: "Create post series (up to 4 related posts)"
Minute        == PollInterval   \* one minute, in clock units

NoTime  == 0 - 1     \* SQL NULL in a DATETIME column
NullId  == 0         \* SQL NULL in an INTEGER column (rowids start at 1)
NullMsg == "null"    \* SQL NULL in a TEXT column / JS null

TickIds == 1..MaxConcurrent

Statuses == {"scheduled", "posting", "posted", "partial", "failed"}

\* error_message column: NULL, errors.join('; ') or `Retry ${n}`
NoError        == [kind |-> "null",   items |-> <<>>, n |-> 0]
Joined(errors) == [kind |-> "joined", items |-> errors, n |-> 0]
RetryLabel(k)  == [kind |-> "retry",  items |-> <<>>, n |-> k]

VARIABLES
    posts,      \* posts table: id -> row
    history,    \* posting_history table, in insertion order
    clock,      \* wall clock
    isRunning,  \* Scheduler.isRunning
    timers,     \* cron tasks registered by start()
    ticks,      \* invocations of checkAndPostScheduledPosts
    faults,     \* store failures so far
    dbOpen,     \* the Scheduler's database handle has not been closed
    fired,      \* cron tasks whose callback has run at the current instant
    series,     \* series table, in insertion order
    response,   \* the last response the HTTP API has sent
    publisher,  \* the publisher call in progress (postTweet / postUpdate)
    apiCalls    \* requests sent to the platforms' APIs, in order

vars == <<posts, history, clock, isRunning, timers, ticks, faults, dbOpen, fired,
          series, response, publisher, apiCalls>>

\* What the dispatch loop itself never touches: the HTTP API's tables and
\* responses, and the inside of a publisher call.
outside == <<series, response, publisher, apiCalls>>

\* ------------------------------------------------------------ post store

\* A row as POST /api/posts or a retry leaves it: status 'scheduled'.
ScheduledRow(id, plats, t, rc) ==
    [id |-> id, status |-> "scheduled", platforms |-> plats, scheduled_time |-> t,
     retry_count |-> rc, posted_at |-> NoTime,
     error_message |-> IF rc = 0 THEN NoError ELSE RetryLabel(rc),
     content |-> "text", series_id |-> NullId, series_order |-> NullId]

\* Rows an earlier run of the process can have left in the database.
SettledRow(id, st) ==
    [id |-> id, status |-> st, platforms |-> <<"twitter">>, scheduled_time |-> 1,
     retry_count |-> IF st = "failed" THEN RetryAttempts ELSE 0,
     posted_at |-> IF st = "posted" THEN 0 ELSE NoTime,
     error_message |-> IF st \in {"partial", "failed"}
                       THEN Joined(<<[platform |-> "twitter", message |-> "rejected"]>>)
                       ELSE NoError,
     content |-> "text", series_id |-> NullId, series_order |-> NullId]

\* The stores a behaviour may start from, rows in rowid order: two posts due
\* at the first tick (one at the retry limit, one a retry short of it); a
\* two-platform post due at the first tick and a post due at the second; a
\* two-platform post at the retry limit beside a row left in 'posting'.
InitStores ==
    {<<ScheduledRow(1, <<"twitter">>, 1, RetryAttempts),
       ScheduledRow(2, <<"twitter">>, 2, RetryAttempts - 1)>>,
     <<ScheduledRow(1, <<"twitter", "linkedin">>, 1, 0),
       ScheduledRow(2, <<"twitter">>, 3, 0)>>,
     <<ScheduledRow(1, <<"twitter", "linkedin">>, 2, RetryAttempts),
       SettledRow(2, "posting")>>}

\* The row with rowid `id`, or a row of status "none" when the table has none
\* (an UPDATE ... WHERE id = ? then changes nothing).
RowOf(store, id) ==
    IF id \in DOMAIN store THEN store[id]
    ELSE [ScheduledRow(id, <<>>, NoTime, 0) EXCEPT !.status = "none"]

\* The largest rowid of the table (0 when it is empty).
LastRowId(store) ==
    IF DOMAIN store = {} THEN 0
    ELSE CHOOSE m \in DOMAIN store : \A i \in DOMAIN store : i <= m

\* Mutant: ORDER BY scheduled_time DESC.
RECURSIVE OrderInsertDescending(_, _, _)
OrderInsertDescending(store, id, ids) ==
    IF ids = <<>> THEN <<id>>
    ELSE IF store[Head(ids)].scheduled_time >= store[id].scheduled_time
         THEN <<Head(ids)>> \o OrderInsertDescending(store, id, Tail(ids))
         ELSE <<id>> \o ids

\* ORDER BY scheduled_time ASC: insertion into an already ordered list of ids.
RECURSIVE OrderInsert(_, _, _)
OrderInsert(store, id, ids) ==
    IF ids = <<>> THEN <<id>>
    ELSE IF store[Head(ids)].scheduled_time <= store[id].scheduled_time
         THEN <<Head(ids)>> \o OrderInsert(store, id, Tail(ids))
         ELSE <<id>> \o ids

\* Mutants of the WHERE clause: any status but 'posted'; a strict comparison.
DueRowNotPosted(row, currentTime) ==
    row.status # "posted" /\ row.scheduled_time <= currentTime
DueRowStrict(row, currentTime) ==
    row.status = "scheduled" /\ row.scheduled_time < currentTime

\* WHERE status = 'scheduled' AND scheduled_time <= ?
DueRow(row, currentTime) ==
    row.status = "scheduled" /\ row.scheduled_time <= currentTime

\* The table scan: rows in rowid order, kept when the WHERE clause holds.
RECURSIVE ScanDue(_, _, _)
ScanDue(store, currentTime, id) ==
    IF id = 0 THEN <<>>
    ELSE LET before == ScanDue(store, currentTime, id - 1)
         IN  IF id \in DOMAIN store /\ DueRow(store[id], currentTime)
             THEN OrderInsert(store, id, before)
             ELSE before

\* Scheduler.getScheduledPosts: the rows the query resolves with.
getScheduledPosts(store, currentTime) ==
    LET ids == ScanDue(store, currentTime, LastRowId(store))
    IN  [i \in 1..Len(ids) |-> store[ids[i]]]

\* Mutant: the UPDATE leaves posted_at out of its SET list.
updatePostStatusNoStamp(store, postId, status, postedAt, errorMessage) ==
    [id \in DOMAIN store |->
        IF id = postId
        THEN [store[id] EXCEPT !.status = status, !.error_message = errorMessage]
        ELSE store[id]]

\* Scheduler.updatePostStatus: UPDATE posts SET status, posted_at, error_message WHERE id
updatePostStatus(store, postId, status, postedAt, errorMessage) ==
    [id \in DOMAIN store |->
        IF id = postId
        THEN [store[id] EXCEPT !.status = status, !.posted_at = postedAt,
                               !.error_message = errorMessage]
        ELSE store[id]]

\* Mutant: the UPDATE does not count the retry.
scheduleRetryNoCount(store, post, newScheduledTime) ==
    [id \in DOMAIN store |->
        IF id = post.id
        THEN [store[id] EXCEPT !.status = "scheduled",
                               !.scheduled_time = newScheduledTime,
                               !.error_message = RetryLabel(post.retry_count + 1)]
        ELSE store[id]]

\* Scheduler.scheduleRetry: the UPDATE it runs; `post` is the row as fetched.
scheduleRetry(store, post, newScheduledTime) ==
    [id \in DOMAIN store |->
        IF id = post.id
        THEN [store[id] EXCEPT !.status = "scheduled",
                               !.scheduled_time = newScheduledTime,
                               !.retry_count = @ + 1,
                               !.error_message = RetryLabel(post.retry_count + 1)]
        ELSE store[id]]

\* Mutant: the row takes the place of the latest row of the table.
logPostingHistoryReplace(hist, postId, platform, status, errorMessage) ==
    IF hist = <<>>
    THEN <<[post_id |-> postId, platform |-> platform, status |-> status,
            error_message |-> errorMessage]>>
    ELSE [hist EXCEPT ![Len(hist)] =
            [post_id |-> postId, platform |-> platform, status |-> status,
             error_message |-> errorMessage]]

\* Scheduler.logPostingHistory: INSERT INTO posting_history
logPostingHistory(hist, postId, platform, status, errorMessage) ==
    Append(hist, [post_id |-> postId, platform |-> platform, status |-> status,
                  error_message |-> errorMessage])

\* Mutant: the DELETE has no status condition.
deleteScheduledAnyStatus(store, id) ==
    [i \in DOMAIN store \ {id} |-> store[i]]

\* DELETE FROM posts WHERE id = ? AND status = "scheduled": the table afterwards.
deleteScheduled(store, id) ==
    [i \in {j \in DOMAIN store : ~(j = id /\ store[j].status = "scheduled")} |-> store[i]]

\* this.changes of a statement that turned table `store` into `after`.
changes(store, after) ==
    Cardinality({i \in DOMAIN store : i \notin DOMAIN after \/ after[i] # store[i]})

\* Mutant: the first member is scheduled one interval after start_time.
seriesPostOneLate(id, body, seriesId, index) ==
    [ScheduledRow(id, body.platforms,
                  body.start_time + ((index + 1) * body.interval_minutes) * Minute, 0)
        EXCEPT !.content = body.posts[index + 1].content,
               !.series_id = seriesId, !.series_order = index + 1]

\* The row stmt.run inserts for member `index` (counted from 0, as forEach
\* does; the members of body.posts are numbered from 1 here).
seriesPost(id, body, seriesId, index) ==
    [ScheduledRow(id, body.platforms,
                  body.start_time + (index * body.interval_minutes) * Minute, 0)
        EXCEPT !.content = body.posts[index + 1].content,
               !.series_id = seriesId, !.series_order = index + 1]

\* posts.forEach((post, index) => stmt.run(...)) for the first n members: the
\* table afterwards.  No row is deleted here, so AUTOINCREMENT hands out the
\* rowid after the largest one.
RECURSIVE expandSeries(_, _, _, _)
expandSeries(store, body, seriesId, n) ==
    IF n = 0 THEN store
    ELSE LET before == expandSeries(store, body, seriesId, n - 1)
             id == LastRowId(before) + 1
         IN  [i \in DOMAIN before \cup {id} |->
                 IF i = id THEN seriesPost(id, body, seriesId, n - 1) ELSE before[i]]

\* ------------------------------------------------------- dispatch loop

\* Mutant: a third tag has a publisher of its own.
KnownPlatformsWide == {"twitter", "linkedin", "mastodon"}

\* The cases of the switch in postToPlatform.
KnownPlatforms == {"twitter", "linkedin"}

NoWrite == [kind |-> "none", status |-> "scheduled", posted_at |-> NoTime,
            error_message |-> NoError, time |-> NoTime]

\* An invocation slot with no invocation in it.
IdleTick ==
    [pc |-> "idle", outcome |-> "none", now |-> 0, batch |-> <<>>, idx |-> 0,
     platIdx |-> 0, successCount |-> 0, errors |-> <<>>, errMsg |-> NullMsg,
     pending |-> NoWrite,
     \* history variables: what this invocation has seen and done
     outcomes |-> <<>>, logged |-> <<>>, issuedAt |-> NoTime, results |-> <<>>,
     runStoreErrs |-> 0, storeErrs |-> 0, rejections |-> 0]

InProgress(tk) == tk.pc \notin {"idle", "done"}

\* The row being processed, as the due-post query returned it.
CurrentPost(tk) == tk.batch[tk.idx]

\* The error reaches the catch of checkAndPostScheduledPosts: the loop over the
\* batch is left and the invocation ends.
TickCatch(tk) == [tk EXCEPT !.pc = "done", !.outcome = "aborted"]

\* processPost is entered for batch[i]: its first await is updatePostStatus(id, 'posting').
BeginPost(tk, i) ==
    [tk EXCEPT !.idx = i, !.pc = "setPosting", !.platIdx = 0, !.successCount = 0,
               !.errors = <<>>, !.errMsg = NullMsg, !.pending = NoWrite,
               !.outcomes = <<>>, !.logged = <<>>, !.issuedAt = NoTime,
               !.runStoreErrs = 0]

\* Mutant: no try/catch around the platform attempt, the error leaves processPost.
PlatformCatchRethrow(tk, message) == TickCatch(tk)

\* The catch block inside the platform loop: the error is collected and a
\* 'failed' history row is awaited.
PlatformCatch(tk, message) ==
    [tk EXCEPT !.pc = "logFailed",
               !.errors = Append(@, [platform |-> CurrentPost(tk).platforms[tk.platIdx],
                                     message  |-> message]),
               !.errMsg = message]

\* Iteration k of the platform loop begins: postToPlatform either calls the
\* platform's publisher or throws for a tag it does not know.
AttemptPlatform(tk, k) ==
    LET at == [tk EXCEPT !.platIdx = k]
    IN  IF CurrentPost(tk).platforms[k] \in KnownPlatforms
        THEN [at EXCEPT !.pc = "publish"]
        ELSE PlatformCatch([at EXCEPT !.outcomes = Append(@, "Unknown")],
                           "Unknown platform")

\* Mutants of the final classification: a retry is still granted at the limit;
\* a partial success is retried like a total failure.
FinalWriteRetryAtLimit(post, successCount, errors, clk) ==
    IF successCount = Len(post.platforms)
    THEN [kind |-> "status", status |-> "posted", posted_at |-> clk,
          error_message |-> NoError, time |-> NoTime]
    ELSE IF successCount > 0
    THEN [kind |-> "status", status |-> "partial", posted_at |-> NoTime,
          error_message |-> Joined(errors), time |-> NoTime]
    ELSE IF post.retry_count <= RetryAttempts
    THEN [kind |-> "retry", status |-> "scheduled", posted_at |-> NoTime,
          error_message |-> NoError, time |-> clk + RetryDelay]
    ELSE [kind |-> "status", status |-> "failed", posted_at |-> NoTime,
          error_message |-> Joined(errors), time |-> NoTime]
FinalWritePartialRetried(post, successCount, errors, clk) ==
    IF successCount = Len(post.platforms)
    THEN [kind |-> "status", status |-> "posted", posted_at |-> clk,
          error_message |-> NoError, time |-> NoTime]
    ELSE IF post.retry_count < RetryAttempts
    THEN [kind |-> "retry", status |-> "scheduled", posted_at |-> NoTime,
          error_message |-> NoError, time |-> clk + RetryDelay]
    ELSE [kind |-> "status", status |-> "failed", posted_at |-> NoTime,
          error_message |-> Joined(errors), time |-> NoTime]

\* processPost, "Update final status": the write it awaits, with its arguments
\* evaluated at the moment of the call (clk).
FinalWrite(post, successCount, errors, clk) ==
    IF successCount = Len(post.platforms)
    THEN [NoWrite EXCEPT !.kind = "status", !.status = "posted", !.posted_at = clk]
    ELSE IF successCount > 0
    THEN [NoWrite EXCEPT !.kind = "status", !.status = "partial",
                         !.error_message = Joined(errors)]
    ELSE IF post.retry_count < RetryAttempts
    THEN [NoWrite EXCEPT !.kind = "retry", !.time = clk + RetryDelay]
    ELSE [NoWrite EXCEPT !.kind = "status", !.status = "failed",
                         !.error_message = Joined(errors)]

\* The platform loop goes on to the next platform, or is over.
AfterAttempt(tk, clk) ==
    IF tk.platIdx < Len(CurrentPost(tk).platforms)
    THEN AttemptPlatform(tk, tk.platIdx + 1)
    ELSE [tk EXCEPT !.pc = "final", !.issuedAt = clk,
                    !.pending = FinalWrite(CurrentPost(tk), tk.successCount, tk.errors, clk)]

\* Mutant: the final write is never sent to the store.
ApplyWriteSkipped(store, post, w) == store

\* The store as the pending final write leaves it.
ApplyWrite(store, post, w) ==
    IF w.kind = "retry"
    THEN scheduleRetry(store, post, w.time)
    ELSE updatePostStatus(store, post.id, w.status, w.posted_at, w.error_message)

\* processPost has returned: the for-loop of checkAndPostScheduledPosts goes on.
AfterPost(tk) ==
    IF tk.idx < Len(tk.batch)
    THEN BeginPost(tk, tk.idx + 1)
    ELSE [tk EXCEPT !.pc = "done", !.outcome = "completed"]

SetTick(t, tk) == ticks' = [ticks EXCEPT ![t] = tk]

\* An HTTP request: route, :id parameter, JSON body.
NoBody == [platforms |-> <<>>, interval_minutes |-> 0, start_time |-> NoTime,
           posts |-> <<>>]
Request(route, id, body) == [route |-> route, id |-> id, body |-> body]

\* A response: the request it answers, the status code (0 while none has been
\* sent) and the id field of its JSON body.
Pending(request) == [request |-> request, code |-> 0, id |-> NullId]
NoResponse == Pending(Request("none", NullId, NoBody))

\* No publisher call in progress.
IdleCall   == [pc |-> "idle"]

\* ---------------------------------------------------------------- actions

Init ==
    /\ posts \in InitStores
    /\ history = <<>>
    /\ clock = 1
    /\ isRunning = FALSE
    /\ timers = 0
    /\ ticks = [t \in TickIds |-> IdleTick]
    /\ faults = 0
    /\ dbOpen = TRUE
    /\ fired = 0
    /\ series = <<>>
    /\ response = NoResponse
    /\ publisher = IdleCall
    /\ apiCalls = <<>>

\* Scheduler.start
Start ==
    /\ ~isRunning
    /\ timers' = timers + 1
    /\ isRunning' = TRUE
    /\ fired' = IF fired > 0 THEN fired + 1 ELSE 0
    /\ UNCHANGED <<posts, history, clock, ticks, faults, dbOpen, outside>>

\* Time passes without the cron timer firing.
TimePasses ==
    /\ timers > 0
    /\ clock < MaxTime
    /\ (clock + 1) % PollInterval # 0
    /\ fired >= timers
    /\ clock' = clock + 1
    /\ fired' = 0
    /\ UNCHANGED <<posts, history, isRunning, timers, ticks, faults, dbOpen, outside>>

\* The cron task fires: its callback calls checkAndPostScheduledPosts, which
\* snapshots `now` and awaits getScheduledPosts(now).
CronFire ==
    /\ timers > 0
    /\ clock < MaxTime
    /\ (clock + 1) % PollInterval = 0
    /\ \E t \in TickIds :
        /\ ~InProgress(ticks[t])
        /\ \A u \in TickIds : u < t => InProgress(ticks[u])
        /\ SetTick(t, [IdleTick EXCEPT !.pc = "query", !.now = clock + 1])
    /\ clock' = clock + 1
    /\ fired' = 1
    /\ UNCHANGED <<posts, history, isRunning, timers, faults, dbOpen, outside>>

\* db.all resolves with the due rows.
QueryDone(t) ==
    /\ ticks[t].pc = "query"
    /\ dbOpen
    /\ LET tk == [ticks[t] EXCEPT !.batch = getScheduledPosts(posts, ticks[t].now)]
       IN  SetTick(t, AfterPost(tk))
    /\ UNCHANGED <<posts, history, clock, isRunning, timers, faults, dbOpen, fired, outside>>

\* db.all rejects.
QueryFail(t) ==
    /\ ticks[t].pc = "query"
    /\ dbOpen
    /\ faults < MaxFaults
    /\ faults' = faults + 1
    /\ SetTick(t, TickCatch([ticks[t] EXCEPT !.storeErrs = @ + 1]))
    /\ UNCHANGED <<posts, history, clock, isRunning, timers, dbOpen, fired, outside>>

\* updatePostStatus(id, 'posting') resolves; the platform loop begins.
SetPostingDone(t) ==
    /\ ticks[t].pc = "setPosting"
    /\ dbOpen
    /\ posts' = updatePostStatus(posts, CurrentPost(ticks[t]).id, "posting", NoTime, NoError)
    /\ SetTick(t, AttemptPlatform(ticks[t], 1))
    /\ UNCHANGED <<history, clock, isRunning, timers, faults, dbOpen, fired, outside>>

\* updatePostStatus(id, 'posting') rejects: processPost throws.
SetPostingFail(t) ==
    /\ ticks[t].pc = "setPosting"
    /\ dbOpen
    /\ faults < MaxFaults
    /\ faults' = faults + 1
    /\ SetTick(t, TickCatch([ticks[t] EXCEPT !.storeErrs = @ + 1]))
    /\ UNCHANGED <<posts, history, clock, isRunning, timers, dbOpen, fired, outside>>

\* The publisher (postTweet / postUpdate) returns: logPostingHistory('posted') is awaited.
PublishDelivered(t) ==
    /\ ticks[t].pc = "publish"
    /\ SetTick(t, [ticks[t] EXCEPT !.pc = "logPosted", !.outcomes = Append(@, "Delivered")])
    /\ UNCHANGED <<posts, history, clock, isRunning, timers, faults, dbOpen, fired, outside>>

\* The publisher throws.
PublishRejected(t) ==
    /\ ticks[t].pc = "publish"
    /\ SetTick(t, PlatformCatch([ticks[t] EXCEPT !.outcomes = Append(@, "Rejected"),
                                                 !.rejections = @ + 1],
                                "rejected"))
    /\ UNCHANGED <<posts, history, clock, isRunning, timers, faults, dbOpen, fired, outside>>

\* The 'posted' history row is inserted; successCount++.
LogPostedDone(t) ==
    /\ ticks[t].pc = "logPosted"
    /\ dbOpen
    /\ LET tk == ticks[t]
           platform == CurrentPost(tk).platforms[tk.platIdx]
           hist == logPostingHistory(history, CurrentPost(tk).id, platform, "posted", NullMsg)
       IN  /\ history' = hist
           /\ SetTick(t, AfterAttempt([tk EXCEPT !.successCount = @ + 1,
                                                 !.logged = Append(@, hist[Len(hist)])],
                                      clock))
    /\ UNCHANGED <<posts, clock, isRunning, timers, faults, dbOpen, fired, outside>>

\* The insert of the 'posted' row rejects inside the try block: the platform's
\* catch handles it like a publisher error.
LogPostedFail(t) ==
    /\ ticks[t].pc = "logPosted"
    /\ dbOpen
    /\ faults < MaxFaults
    /\ faults' = faults + 1
    /\ SetTick(t, PlatformCatch([ticks[t] EXCEPT !.storeErrs = @ + 1,
                                                 !.runStoreErrs = @ + 1],
                                "SQLITE_ERROR"))
    /\ UNCHANGED <<posts, history, clock, isRunning, timers, dbOpen, fired, outside>>

\* The 'failed' history row is inserted.
LogFailedDone(t) ==
    /\ ticks[t].pc = "logFailed"
    /\ dbOpen
    /\ LET tk == ticks[t]
           platform == CurrentPost(tk).platforms[tk.platIdx]
           hist == logPostingHistory(history, CurrentPost(tk).id, platform, "failed", tk.errMsg)
       IN  /\ history' = hist
           /\ SetTick(t, AfterAttempt([tk EXCEPT !.logged = Append(@, hist[Len(hist)])],
                                      clock))
    /\ UNCHANGED <<posts, clock, isRunning, timers, faults, dbOpen, fired, outside>>

\* The insert of the 'failed' row rejects inside the catch block: processPost throws.
LogFailedFail(t) ==
    /\ ticks[t].pc = "logFailed"
    /\ dbOpen
    /\ faults < MaxFaults
    /\ faults' = faults + 1
    /\ SetTick(t, TickCatch([ticks[t] EXCEPT !.storeErrs = @ + 1]))
    /\ UNCHANGED <<posts, history, clock, isRunning, timers, dbOpen, fired, outside>>

\* The final write (updatePostStatus or scheduleRetry) resolves; processPost returns.
FinalDone(t) ==
    /\ ticks[t].pc = "final"
    /\ dbOpen
    /\ LET tk == ticks[t]
           post == CurrentPost(tk)
           store == ApplyWrite(posts, post, tk.pending)
           result == [post |-> post, outcomes |-> tk.outcomes, logged |-> tk.logged,
                      issuedAt |-> tk.issuedAt, now |-> tk.now,
                      storeErrs |-> tk.runStoreErrs,
                      before |-> RowOf(posts, post.id), after |-> RowOf(store, post.id)]
       IN  /\ posts' = store
           /\ SetTick(t, AfterPost([tk EXCEPT !.results = Append(@, result)]))
    /\ UNCHANGED <<history, clock, isRunning, timers, faults, dbOpen, fired, outside>>

\* The final write rejects: processPost throws.
FinalFail(t) ==
    /\ ticks[t].pc = "final"
    /\ dbOpen
    /\ faults < MaxFaults
    /\ faults' = faults + 1
    /\ SetTick(t, TickCatch([ticks[t] EXCEPT !.storeErrs = @ + 1]))
    /\ UNCHANGED <<posts, history, clock, isRunning, timers, dbOpen, fired, outside>>

Next ==
    \/ Start
    \/ TimePasses
    \/ CronFire
    \/ \E t \in TickIds : QueryDone(t)
    \/ \E t \in TickIds : SetPostingDone(t)
    \/ \E t \in TickIds : PublishDelivered(t)
    \/ \E t \in TickIds : PublishRejected(t)
    \/ \E t \in TickIds : LogPostedDone(t)
    \/ \E t \in TickIds : LogFailedDone(t)
    \/ \E t \in TickIds : FinalDone(t)

\* The scheduler over a store whose operations succeed.
Spec == Init /\ [][Next]_vars

\* Scheduler.stop: the database handle is closed and isRunning cleared; the
\* cron task start() registered is not touched.  (Only the first close is
\* modelled: closing a closed handle raises SQLITE_MISUSE.)
Stop ==
    /\ dbOpen
    /\ dbOpen' = FALSE
    /\ isRunning' = FALSE
    /\ UNCHANGED <<posts, history, clock, timers, ticks, faults, fired, outside>>

\* A further registered cron task fires at the same instant: its callback
\* starts another invocation.
CronFireAgain ==
    /\ fired > 0
    /\ fired < timers
    /\ \E t \in TickIds :
        /\ ~InProgress(ticks[t])
        /\ \A u \in TickIds : u < t => InProgress(ticks[u])
        /\ SetTick(t, [IdleTick EXCEPT !.pc = "query", !.now = clock])
    /\ fired' = fired + 1
    /\ UNCHANGED <<posts, history, clock, isRunning, timers, faults, dbOpen, outside>>

\* The store operation invocation t awaits settles after the handle was
\* closed: it fails with SQLITE_MISUSE, whichever operation it is.
StoreClosed(t) ==
    /\ ~dbOpen
    /\ ticks[t].pc \in {"query", "setPosting", "logPosted", "logFailed", "final"}
    /\ LET tk == [ticks[t] EXCEPT !.storeErrs = @ + 1]
       IN  IF tk.pc = "logPosted"
           THEN SetTick(t, PlatformCatch([tk EXCEPT !.runStoreErrs = @ + 1], "SQLITE_MISUSE"))
           ELSE SetTick(t, TickCatch(tk))
    /\ UNCHANGED <<posts, history, clock, isRunning, timers, faults, dbOpen, fired, outside>>

\* The scheduler with its whole lifecycle: start() and stop() in any order.
NextLife ==
    \/ Next
    \/ Stop
    \/ CronFireAgain
    \/ \E t \in TickIds : StoreClosed(t)

SpecLife == Init /\ [][NextLife]_vars

\* The next promise invocation t awaits settles (the store answers, the
\* publisher returns or throws).
TickStep(t) ==
    \/ QueryDone(t)
    \/ SetPostingDone(t)
    \/ PublishDelivered(t)
    \/ PublishRejected(t)
    \/ LogPostedDone(t)
    \/ LogFailedDone(t)
    \/ FinalDone(t)

\* The scheduler where every awaited store or publisher call eventually settles.
SpecLive == Init /\ [][Next]_vars /\ \A t \in TickIds : WF_vars(TickStep(t))

\* The same, where a store operation may also fail (its callback gets `err`).
NextFaults ==
    \/ Next
    \/ \E t \in TickIds : QueryFail(t)
    \/ \E t \in TickIds : SetPostingFail(t)
    \/ \E t \in TickIds : LogPostedFail(t)
    \/ \E t \in TickIds : LogFailedFail(t)
    \/ \E t \in TickIds : FinalFail(t)

SpecFaults == Init /\ [][NextFaults]_vars

\* The due-post query on its own: any three rows, any `now`, one invocation
\* waiting for db.all to resolve.
AnyRow(id, st, t) ==
    IF st = "scheduled"
    THEN ScheduledRow(id, <<"twitter">>, t, 0)
    ELSE [SettledRow(id, st) EXCEPT !.scheduled_time = t]

DueRows(id) == {AnyRow(id, st, t) : st \in Statuses, t \in 1..MaxTime}

InitDue ==
    /\ posts \in {<<a, b, c>> : a \in DueRows(1), b \in DueRows(2), c \in DueRows(3)}
    /\ history = <<>>
    /\ clock \in 1..MaxTime
    /\ isRunning = TRUE
    /\ timers = 1
    /\ ticks = [t \in TickIds |->
                 IF t = 1 THEN [IdleTick EXCEPT !.pc = "query", !.now = clock] ELSE IdleTick]
    /\ faults = 0
    /\ dbOpen = TRUE
    /\ fired = 0
    /\ series = <<>>
    /\ response = NoResponse
    /\ publisher = IdleCall
    /\ apiCalls = <<>>

NextDue == \E t \in TickIds : QueryDone(t)

SpecDue == InitDue /\ [][NextDue]_vars

\* ---------------------------------------------------------------- HTTP API
\* The API server (app.js) has its own connection to the same database file.

Respond(request, code, id) == [request |-> request, code |-> code, id |-> id]

\* app.delete('/api/posts/:id'): the statement runs.
DeletePost(id) ==
    /\ posts' = deleteScheduled(posts, id)
    /\ response' = Respond(Request("DELETE /api/posts/:id", id, NoBody),
                           IF changes(posts, deleteScheduled(posts, id)) = 0
                           THEN 404 ELSE 200,
                           NullId)
    /\ UNCHANGED <<history, clock, isRunning, timers, ticks, faults, dbOpen, fired,
                   series, publisher, apiCalls>>

\* app.delete('/api/posts/:id'): the statement fails.
DeletePostFail(id) ==
    /\ faults < MaxFaults
    /\ faults' = faults + 1
    /\ response' = Respond(Request("DELETE /api/posts/:id", id, NoBody), 500, NullId)
    /\ UNCHANGED <<posts, history, clock, isRunning, timers, ticks, dbOpen, fired,
                   series, publisher, apiCalls>>

\* The ids a request can name: every rowid in use and one that is not.
RequestIds == 1..(LastRowId(posts) + 1)

\* Delete requests against a table of three rows of any status.
DeleteRows(id) == {AnyRow(id, st, 1) : st \in Statuses}

InitDelete ==
    /\ posts \in {<<a, b, c>> : a \in DeleteRows(1), b \in DeleteRows(2), c \in DeleteRows(3)}
    /\ history = <<>>
    /\ clock = 1
    /\ isRunning = FALSE
    /\ timers = 0
    /\ ticks = [t \in TickIds |-> IdleTick]
    /\ faults = 0
    /\ dbOpen = TRUE
    /\ fired = 0
    /\ series = <<>>
    /\ response = NoResponse
    /\ publisher = IdleCall
    /\ apiCalls = <<>>

NextDelete ==
    \/ \E id \in RequestIds : DeletePost(id)
    \/ \E id \in RequestIds : DeletePostFail(id)

SpecDelete == InitDelete /\ [][NextDelete]_vars

\* app.post('/api/series'): the series row is inserted, then one post per
\* member entry.
CreateSeries ==
    /\ response.code = 0
    /\ response.request.route = "POST /api/series"
    /\ LET body == response.request.body
           seriesId == Len(series) + 1
       IN  /\ series' = Append(series,
                  [id |-> seriesId, platforms |-> body.platforms,
                   interval_minutes |-> body.interval_minutes,
                   start_time |-> body.start_time, status |-> "scheduled"])
           /\ posts' = expandSeries(posts, body, seriesId, Len(body.posts))
           /\ response' = Respond(response.request, 200, seriesId)
    /\ UNCHANGED <<history, clock, isRunning, timers, ticks, faults, dbOpen, fired,
                   publisher, apiCalls>>

\* app.post('/api/series'): the insert of the series row fails.
CreateSeriesFail ==
    /\ response.code = 0
    /\ response.request.route = "POST /api/series"
    /\ faults < MaxFaults
    /\ faults' = faults + 1
    /\ response' = Respond(response.request, 500, NullId)
    /\ UNCHANGED <<posts, history, clock, isRunning, timers, ticks, dbOpen, fired,
                   series, publisher, apiCalls>>

\* The member lists a series request can carry: up to MaxMembers entries.
MemberLists ==
    UNION {[1..n -> {[content |-> "a"], [content |-> "b"]}] : n \in 0..MaxMembers}

SeriesBodies ==
    {[platforms |-> p, interval_minutes |-> i, start_time |-> t, posts |-> m] :
        p \in {<<"twitter">>, <<"twitter", "linkedin">>},
        i \in 1..2, t \in 1..MaxTime, m \in MemberLists}

\* One series request, over an empty table or beside a single post.
InitSeries ==
    /\ posts \in {<<>>, <<ScheduledRow(1, <<"twitter">>, 1, 0)>>}
    /\ history = <<>>
    /\ clock = 1
    /\ isRunning = FALSE
    /\ timers = 0
    /\ ticks = [t \in TickIds |-> IdleTick]
    /\ faults = 0
    /\ dbOpen = TRUE
    /\ fired = 0
    /\ series = <<>>
    /\ response \in {Pending(Request("POST /api/series", NullId, b)) : b \in SeriesBodies}
    /\ publisher = IdleCall
    /\ apiCalls = <<>>

NextSeries == CreateSeries \/ CreateSeriesFail

SpecSeries == InitSeries /\ [][NextSeries]_vars

\* Stores whose posts name a platform postToPlatform has no case for, before,
\* after or without a platform it knows.
UnknownTagStores ==
    {<<ScheduledRow(1, <<"mastodon", "twitter">>, 1, 0),
       ScheduledRow(2, <<"twitter", "mastodon">>, 2, RetryAttempts)>>,
     <<ScheduledRow(1, <<"mastodon">>, 1, RetryAttempts - 1),
       ScheduledRow(2, <<"mastodon">>, 2, RetryAttempts)>>}

InitUnknownTag ==
    /\ posts \in UnknownTagStores
    /\ history = <<>>
    /\ clock = 1
    /\ isRunning = FALSE
    /\ timers = 0
    /\ ticks = [t \in TickIds |-> IdleTick]
    /\ faults = 0
    /\ dbOpen = TRUE
    /\ fired = 0
    /\ series = <<>>
    /\ response = NoResponse
    /\ publisher = IdleCall
    /\ apiCalls = <<>>

\* The scheduler over posts with unknown platform tags.
SpecUnknownTag == InitUnknownTag /\ [][Next]_vars

\* The scheduler running while the API server handles delete requests.
NextApi ==
    \/ Next
    \/ \E id \in RequestIds : DeletePost(id)

SpecApi == Init /\ [][NextApi]_vars

\* -------------------------------------------------------------- publishers
\* TwitterService.postTweet and LinkedInService.postUpdate, request by
\* request.  A call record: the service, the text, the media reference
\* ("none": no mediaPath; "file": a path to an existing file; "missing": a
\* path to no file), whether the service has its credential, the position
\* (pc), whether an upload has succeeded, and the result once it is over.

Services == {"twitter", "linkedin"}

\* The HTTP status codes a platform answers a failed request with.
ErrorCodes == {401, 403, 429, 500}

Called(service, content, media, credential) ==
    [pc |-> "called", service |-> service, content |-> content, media |-> media,
     credential |-> credential, uploaded |-> FALSE, result |-> "none",
     message |-> NullMsg]

Deliver(call) == [call EXCEPT !.pc = "over", !.result = "Delivered"]

Reject(call, message) ==
    [call EXCEPT !.pc = "over", !.result = "Rejected", !.message = message]

\* The message postTweet's / postUpdate's catch block throws for a failed
\* request with HTTP status `code`.
StatusMessage(code) ==
    IF code = 401 THEN "authentication failed"
    ELSE IF code = 403 THEN "posting forbidden"
    ELSE IF code = 429 THEN "rate limit exceeded"
    ELSE "Failed to post"

\* postTweet up to its first await.
postTweetEnter(call) ==
    IF ~call.credential THEN Reject(call, "credentials not configured")
    ELSE IF call.media = "none" THEN [call EXCEPT !.pc = "create"]
    ELSE IF call.media = "missing" THEN Reject(call, "Failed to post")
    ELSE [call EXCEPT !.pc = "upload"]

\* postUpdate once getProfile has answered: `if (mediaPath &&
\* fs.existsSync(mediaPath))` uploadImage is called, whose first await is
\* getProfile again; otherwise the post is created.
postUpdateAfterProfile(call) ==
    IF call.media = "file"
    THEN [call EXCEPT !.pc = "uploadProfile"]
    ELSE [call EXCEPT !.pc = "create"]

\* postUpdate up to its first await.
postUpdateEnter(call) ==
    IF ~call.credential THEN Reject(call, "access token not available")
    ELSE [call EXCEPT !.pc = "profile"]

\* The awaited request has succeeded.
postTweetOk(call) ==
    IF call.pc = "upload" THEN [call EXCEPT !.pc = "create", !.uploaded = TRUE]
    ELSE Deliver(call)

postUpdateOk(call) ==
    IF call.pc = "profile" THEN postUpdateAfterProfile(call)
    ELSE IF call.pc = "uploadProfile" THEN [call EXCEPT !.pc = "register"]
    ELSE IF call.pc = "register" THEN [call EXCEPT !.pc = "put"]
    ELSE IF call.pc = "put" THEN [call EXCEPT !.pc = "create", !.uploaded = TRUE]
    ELSE Deliver(call)

\* The awaited request has failed with HTTP status `code`.  An error of
\* uploadMedia, uploadImage or getProfile is rethrown as a new Error that
\* carries no response, so the outer catch takes its last branch.
publishFail(call, code) ==
    IF call.pc = "create" THEN Reject(call, StatusMessage(code))
    ELSE Reject(call, "Failed to post")

\* The request a call that has come to `pc` is waiting for.
RequestAt(call) ==
    [service |-> call.service,
     api |-> IF call.pc = "create" THEN "create post"
             ELSE IF call.pc \in {"profile", "uploadProfile"} THEN "get profile"
             ELSE IF call.pc = "register" THEN "register upload"
             ELSE "upload media",
     text |-> IF call.pc = "create" THEN call.content ELSE NullMsg,
     media |-> call.pc = "create" /\ call.uploaded]

\* The call moves on to `next`; when it is not over it has sent a request.
Proceed(next) ==
    /\ publisher' = next
    /\ apiCalls' = IF next.pc = "over" THEN apiCalls ELSE Append(apiCalls, RequestAt(next))
    /\ UNCHANGED <<posts, history, clock, isRunning, timers, ticks, faults, dbOpen,
                   fired, series, response>>

\* The publisher is entered and runs to its first await.
PublisherEnter ==
    /\ publisher.pc = "called"
    /\ Proceed(IF publisher.service = "twitter"
               THEN postTweetEnter(publisher) ELSE postUpdateEnter(publisher))

\* The platform answers the awaited request with success.
PublisherOk ==
    /\ publisher.pc \notin {"idle", "called", "over"}
    /\ Proceed(IF publisher.service = "twitter"
               THEN postTweetOk(publisher) ELSE postUpdateOk(publisher))

\* The platform answers the awaited request with an error.
PublisherFail(code) ==
    /\ publisher.pc \notin {"idle", "called", "over"}
    /\ Proceed(publishFail(publisher, code))

\* One publisher call, for every service, text, media reference and credential.
InitPublish ==
    /\ posts = <<>>
    /\ history = <<>>
    /\ clock = 1
    /\ isRunning = FALSE
    /\ timers = 0
    /\ ticks = [t \in TickIds |-> IdleTick]
    /\ faults = 0
    /\ dbOpen = TRUE
    /\ fired = 0
    /\ series = <<>>
    /\ response = NoResponse
    /\ publisher \in {Called(sv, c, m, cr) :
                          sv \in Services, c \in {"a", "b"},
                          m \in {"none", "file", "missing"}, cr \in BOOLEAN}
    /\ apiCalls = <<>>

NextPublish ==
    \/ PublisherEnter
    \/ PublisherOk
    \/ \E code \in ErrorCodes : PublisherFail(code)

SpecPublish == InitPublish /\ [][NextPublish]_vars

\* ------------------------------------------------------------ properties

\* The records of every processPost run that reached its final write.
AllResults ==
    UNION {{ticks[t].results[i] : i \in 1..Len(ticks[t].results)} : t \in TickIds}

Count(outcomes, o) == Cardinality({i \in 1..Len(outcomes) : outcomes[i] = o})

AllOutcomes(r, o) == \A i \in 1..Len(r.outcomes) : r.outcomes[i] = o

\* The history rows a run appends when platform i ends with r.outcomes[i]
\* (publisher errors carry the message "rejected").
ExpectedHistory(r) ==
    [i \in 1..Len(r.post.platforms) |->
        [post_id |-> r.post.id, platform |-> r.post.platforms[i],
         status |-> IF r.outcomes[i] = "Delivered" THEN "posted" ELSE "failed",
         error_message |-> IF r.outcomes[i] = "Delivered" THEN NullMsg ELSE "rejected"]]

\* "{platform}: {message}" for each rejecting platform, in platform order.
RECURSIVE ExpectedErrors(_, _)
ExpectedErrors(r, k) ==
    IF k = 0 THEN <<>>
    ELSE IF r.outcomes[k] = "Delivered"
         THEN ExpectedErrors(r, k - 1)
         ELSE Append(ExpectedErrors(r, k - 1),
                     [platform |-> r.post.platforms[k], message |-> "rejected"])

\* The status section 4.3 step 3 prescribes for a run's publish outcomes.
DictatedStatus(r) ==
    IF Count(r.outcomes, "Delivered") = Len(r.post.platforms) THEN "posted"
    ELSE IF Count(r.outcomes, "Delivered") > 0 THEN "partial"
    ELSE IF r.post.retry_count < RetryAttempts THEN "scheduled"
    ELSE "failed"

\* C1: at no time are two invocations of checkAndPostScheduledPosts in progress.
C1_NoConcurrentTicks ==
    Cardinality({t \in TickIds : InProgress(ticks[t])}) <= 1

\* C2: in every reachable state every post's retry_count is at most the
\* configured maximum number of retries.
C2_RetryCountWithinMax ==
    \A id \in DOMAIN posts : posts[id].retry_count <= RetryAttempts

\* C3: an exception raised while one due post is processed does not abort the
\* batch: an invocation never ends before it has reached the last post of the
\* batch it fetched.
C3_BatchNeverAborted ==
    \A t \in TickIds :
        ticks[t].pc = "done" => ticks[t].idx = Len(ticks[t].batch)

\* C4: when a publisher throws during a tick (and no store operation of that
\* tick fails), the tick completes, every post of its batch is processed in
\* order, and each is written the status its own publish outcomes dictate.
C4_PublisherThrowIsolated ==
    \A t \in TickIds :
        LET tk == ticks[t]
        IN  (tk.pc = "done" /\ tk.rejections > 0 /\ tk.storeErrs = 0) =>
                /\ tk.outcome = "completed"
                /\ Len(tk.results) = Len(tk.batch)
                /\ \A i \in 1..Len(tk.results) :
                      /\ tk.results[i].post = tk.batch[i]
                      /\ tk.results[i].after.status = DictatedStatus(tk.results[i])

\* C4 witness: a tick whose first post saw a publisher throw has gone on to
\* process its second post.
C4_Witness ==
    \E t \in TickIds :
        /\ ticks[t].pc = "done"
        /\ ticks[t].storeErrs = 0
        /\ Len(ticks[t].results) = 2
        /\ Count(ticks[t].results[1].outcomes, "Rejected") > 0

\* C5: a post whose status is posting is never among the rows the due-post
\* query returns, whatever its scheduled_time.
C5_PostingNeverDue ==
    \A t \in TickIds :
        ticks[t].pc \notin {"idle", "query"} =>
            \A i \in 1..Len(ticks[t].batch) :
                posts[ticks[t].batch[i].id].status # "posting"

\* C5 witness: the query has answered with some rows while a posting row
\* whose scheduled_time has passed is in the table.
C5_Witness ==
    \E t \in TickIds :
        /\ ticks[t].pc \notin {"idle", "query"}
        /\ ticks[t].batch # <<>>
        /\ \E id \in DOMAIN posts :
              posts[id].status = "posting" /\ posts[id].scheduled_time <= ticks[t].now

\* C6: the due-post query returns exactly the rows with status scheduled and
\* scheduled_time <= now, each once, in ascending scheduled_time order.
C6_DueSelectionExact ==
    \A t \in TickIds :
        ticks[t].pc \notin {"idle", "query"} =>
            LET b == ticks[t].batch
                due == {id \in DOMAIN posts :
                          posts[id].status = "scheduled"
                          /\ posts[id].scheduled_time <= ticks[t].now}
            IN  /\ {b[i].id : i \in 1..Len(b)} = due
                /\ Len(b) = Cardinality(due)
                /\ \A i \in 1..Len(b) : b[i] = posts[b[i].id]
                /\ \A i, j \in 1..Len(b) :
                      i < j => b[i].scheduled_time <= b[j].scheduled_time

\* C6 witness: the answer holds two rows in the reverse of their rowid order,
\* while a not yet due row is left out.
C6_Witness ==
    \E t \in TickIds :
        /\ ticks[t].pc \notin {"idle", "query"}
        /\ Len(ticks[t].batch) = 2
        /\ ticks[t].batch[1].id > ticks[t].batch[2].id
        /\ ticks[t].batch[1].scheduled_time < ticks[t].batch[2].scheduled_time
        /\ \E id \in DOMAIN posts :
              posts[id].status = "scheduled" /\ posts[id].scheduled_time > ticks[t].now

\* C7: when every requested platform's publisher returns Delivered (and the
\* history inserts succeed), the run's final write leaves the post posted with
\* posted_at set to the instant of the write call and retry_count as it was,
\* and the run has appended exactly one posted history row per platform.
C7_AllDelivered ==
    \A r \in AllResults :
        (AllOutcomes(r, "Delivered") /\ r.storeErrs = 0) =>
            /\ r.after.status = "posted"
            /\ r.after.posted_at # NoTime
            /\ r.after.posted_at = r.issuedAt
            /\ r.after.retry_count = r.before.retry_count
            /\ r.logged = ExpectedHistory(r)
            /\ \A i \in 1..Len(r.logged) :
                  \E k \in 1..Len(history) : history[k] = r.logged[i]

\* C7 witness: a post with two platforms, both delivered, has been written.
C7_Witness ==
    \E r \in AllResults :
        /\ AllOutcomes(r, "Delivered")
        /\ r.storeErrs = 0
        /\ Len(r.post.platforms) = 2
        /\ r.after.status = "posted"

\* C8 as stated: all platforms rejected and retry_count below the maximum:
\* status scheduled, retry_count + 1, scheduled_time = the tick's `now` +
\* retry delay, error summary "Retry N" with N the new retry_count, one failed
\* history row per platform.
C8_RetryFromTickNow ==
    \A r \in AllResults :
        (AllOutcomes(r, "Rejected") /\ r.post.retry_count < RetryAttempts) =>
            /\ r.after.status = "scheduled"
            /\ r.after.retry_count = r.before.retry_count + 1
            /\ r.after.scheduled_time = r.now + RetryDelay
            /\ r.after.error_message = RetryLabel(r.after.retry_count)
            /\ r.logged = ExpectedHistory(r)

\* C8 amended: all platforms rejected and the fetched retry_count below the
\* maximum: status scheduled, stored retry_count + 1, scheduled_time = the
\* instant scheduleRetry is called (never before the tick's `now`) + retry
\* delay, error summary "Retry N" with N the fetched retry_count + 1, one
\* failed history row per platform.
C8_RetryFromCallTime ==
    \A r \in AllResults :
        (AllOutcomes(r, "Rejected") /\ r.post.retry_count < RetryAttempts) =>
            /\ r.after.status = "scheduled"
            /\ r.after.retry_count = r.before.retry_count + 1
            /\ r.after.scheduled_time = r.issuedAt + RetryDelay
            /\ r.issuedAt >= r.now
            /\ r.after.error_message = RetryLabel(r.post.retry_count + 1)
            /\ r.logged = ExpectedHistory(r)

\* C8 witness: a post was rescheduled by a scheduleRetry called after the
\* clock had moved on from the tick's `now`.
C8_Witness ==
    \E r \in AllResults :
        /\ AllOutcomes(r, "Rejected")
        /\ r.post.retry_count < RetryAttempts
        /\ r.after.status = "scheduled"
        /\ r.issuedAt > r.now

\* C9: all platforms rejected and retry_count equal to the maximum: status
\* failed, error summary the joined per-platform errors, scheduled_time and
\* retry_count unchanged.
C9_FailedAtLimit ==
    \A r \in AllResults :
        (AllOutcomes(r, "Rejected") /\ r.post.retry_count = RetryAttempts) =>
            /\ r.after.status = "failed"
            /\ r.after.error_message = Joined(ExpectedErrors(r, Len(r.outcomes)))
            /\ r.after.scheduled_time = r.before.scheduled_time
            /\ r.after.retry_count = r.before.retry_count
            /\ r.logged = ExpectedHistory(r)

\* C9 witness: a post at the retry limit has been written failed.
C9_Witness ==
    \E r \in AllResults :
        /\ AllOutcomes(r, "Rejected")
        /\ r.post.retry_count = RetryAttempts
        /\ r.after.status = "failed"
        /\ r.after.scheduled_time = r.post.scheduled_time

\* C10: at least one but not all platforms delivered (and the history inserts
\* succeed): status partial, error summary "{platform}: {message}" for each
\* rejecting platform, scheduled_time and retry_count unchanged whatever the
\* retry_count, one history row per platform (posted or failed).
C10_Partial ==
    \A r \in AllResults :
        (/\ Count(r.outcomes, "Delivered") > 0
         /\ Count(r.outcomes, "Delivered") < Len(r.post.platforms)
         /\ r.storeErrs = 0) =>
            /\ r.after.status = "partial"
            /\ r.after.error_message = Joined(ExpectedErrors(r, Len(r.outcomes)))
            /\ r.after.scheduled_time = r.before.scheduled_time
            /\ r.after.retry_count = r.before.retry_count
            /\ r.logged = ExpectedHistory(r)

\* C10 witness: a post with retries left, delivered on one platform and
\* rejected on the other, has been written partial.
C10_Witness ==
    \E r \in AllResults :
        /\ r.outcomes = <<"Delivered", "Rejected">>
        /\ r.storeErrs = 0
        /\ r.post.retry_count < RetryAttempts
        /\ r.after.status = "partial"

\* C11: partial is terminal: a post whose status is partial keeps that status
\* in every later state (so no invocation sets it to posting and calls a
\* publisher for it again).
C11_PartialIsTerminal ==
    [][\A id \in DOMAIN posts :
          posts[id].status = "partial" =>
              id \in DOMAIN posts' /\ posts'[id].status = "partial"]_vars

\* C12: retry is bounded by count alone: a run in which every platform was
\* rejected either reschedules the post, that reschedule being at most the
\* RetryAttempts-th one the post has had, or leaves it failed with retry_count
\* equal to RetryAttempts.
C12_RetryBoundedByCount ==
    \A r \in AllResults :
        AllOutcomes(r, "Rejected") =>
            IF r.after.status = "scheduled"
            THEN r.after.retry_count <= RetryAttempts
            ELSE r.after.status = "failed" /\ r.after.retry_count = RetryAttempts

\* C13: when a store operation fails during a tick, the failure is caught at
\* the tick boundary and no post is left corrupted: once that tick has ended
\* (and no other invocation is in progress) no post of its batch has status
\* posting.
C13_NoPostLeftPosting ==
    \A t \in TickIds :
        (/\ ticks[t].pc = "done"
         /\ ticks[t].storeErrs > 0
         /\ \A u \in TickIds : ~InProgress(ticks[u])) =>
            \A i \in 1..Len(ticks[t].batch) :
                ticks[t].batch[i].id \in DOMAIN posts
                    => posts[ticks[t].batch[i].id].status # "posting"

\* The positions a post can have in a fetched batch.
BatchPositions ==
    1..Len(CHOOSE s \in InitStores : \A o \in InitStores : Len(o) <= Len(s))

\* Invocation t is inside processPost for the i-th post of its batch, past the
\* write that set the post to posting.
PostingRun(t, i) ==
    ticks[t].idx = i /\ ticks[t].pc \in {"publish", "logPosted", "logFailed", "final"}

\* Invocation t has made its final write for the i-th post of its batch.
PostingRunOver(t, i) ==
    /\ Len(ticks[t].results) >= i
    /\ ticks[t].results[i].after.status \in {"posted", "partial", "failed", "scheduled"}

\* C14: provided publisher calls return and store writes succeed, every post
\* an invocation has set to posting is later written, by the same invocation,
\* exactly one of posted, partial, failed or scheduled: every final write
\* leaves one of these four, and every run that set a post to posting reaches
\* its final write.
C14_PostingIsLeft ==
    /\ [](\A r \in AllResults :
             r.after.status \in {"posted", "partial", "failed", "scheduled"})
    /\ \A t \in TickIds : \A i \in BatchPositions :
          PostingRun(t, i) ~> PostingRunOver(t, i)

\* C14 witness: a post that was posting has been rescheduled by the final
\* write of the invocation that processed it.
C14_Witness ==
    \E r \in AllResults :
        r.before.status = "posting" /\ r.after.status = "scheduled"

\* C15: a post can be deleted only while its status is scheduled: a DELETE
\* request that names a post in status posting, posted, partial or failed, or
\* an id no post has, is answered 404 and leaves the posts table as it was.
C15_DeleteOnlyScheduled ==
    [][\A id \in RequestIds :
          (DeletePost(id) /\ ~(id \in DOMAIN posts /\ posts[id].status = "scheduled"))
              => (response'.code = 404 /\ posts' = posts)]_vars

\* C15 witness: a delete request naming a post in status posting was answered
\* 404 and the post is still there.
C15_Witness ==
    /\ response.request.route = "DELETE /api/posts/:id"
    /\ response.code = 404
    /\ response.request.id \in DOMAIN posts
    /\ posts[response.request.id].status = "posting"

\* The posts that belong to series sid.
SeriesPosts(sid) == {id \in DOMAIN posts : posts[id].series_id = sid}

C17_SeriesBounded ==
    \A sid \in 1..Len(series) : Cardinality(SeriesPosts(sid)) <= SeriesLimit

\* C18: after stop() has returned (and until start() is called again) no new
\* invocation of checkAndPostScheduledPosts begins.
C18_NoTickAfterStop ==
    [][(~dbOpen /\ ~isRunning) =>
          \A t \in TickIds : ticks'[t].pc = "query" => ticks[t].pc = "query"]_vars

\* C19: start is idempotent: whatever start() and stop() calls were made, at
\* most one cron task is registered and at most one invocation is triggered
\* at any instant.
C19_OneTimer ==
    timers <= 1 /\ fired <= 1

\* C20: for both publishers, when a media reference is supplied and the media
\* has not been uploaded, the request that creates the post is never issued
\* (the attempt can only end rejected), so no text-only post is created.
C20_NoTextOnlyPost ==
    (publisher.pc # "idle" /\ publisher.media # "none" /\ ~publisher.uploaded) =>
        /\ \A i \in 1..Len(apiCalls) : apiCalls[i].api # "create post"
        /\ publisher.result # "Delivered"

\* The attempts invocation tk has made for its current post and the history
\* rows it has appended for them: one row per attempt, the row of the latest
\* attempt being due while its insert is awaited.
AttemptsLogged(tk) ==
    tk.pc \in {"publish", "logPosted", "logFailed", "final"} =>
        /\ Len(tk.outcomes) = (IF tk.pc = "publish" THEN tk.platIdx - 1 ELSE tk.platIdx)
        /\ Len(tk.logged) = (IF tk.pc \in {"logPosted", "logFailed"}
                             THEN Len(tk.outcomes) - 1 ELSE Len(tk.outcomes))
        /\ \A i \in 1..Len(tk.logged) :
              /\ tk.logged[i].post_id = CurrentPost(tk).id
              /\ tk.logged[i].platform = CurrentPost(tk).platforms[i]
              /\ tk.logged[i].status \in {"posted", "failed"}

\* C21: history is append-only with one entry per delivery attempt: every
\* step leaves the history rows it finds in place and adds at most one row at
\* the end, and every completed publisher invocation of a run has exactly one
\* row (posted or failed) for its (post, platform) pair.
C21_HistoryAppendOnly ==
    /\ [][\/ history' = history
          \/ /\ Len(history') = Len(history) + 1
             /\ SubSeq(history', 1, Len(history)) = history]_vars
    /\ [](\A t \in TickIds : AttemptsLogged(ticks[t]))

\* C21 witness: a run has appended its second row while the post's own row
\* was deleted from the posts table.
C21_Witness ==
    \E t \in TickIds :
        /\ ticks[t].pc = "final"
        /\ Len(ticks[t].logged) = 2
        /\ Len(history) >= 2
        /\ CurrentPost(ticks[t]).id \notin DOMAIN posts

\* C22: within one tick publisher invocations happen one at a time: the batch
\* is in ascending scheduled_time order and is worked through in that order,
\* a post is begun only when every earlier post of the batch has had its final
\* write, and the invocation for the k-th platform of a post is in flight only
\* when the k-1 platforms before it, in list order, have each completed and
\* had their history row appended.
C22_OneAtATimeInOrder ==
    \A t \in TickIds :
        LET tk == ticks[t]
        IN  /\ \A i, j \in 1..Len(tk.batch) :
                  i < j => tk.batch[i].scheduled_time <= tk.batch[j].scheduled_time
            /\ \A i \in 1..Len(tk.results) : tk.results[i].post = tk.batch[i]
            /\ tk.pc \in {"setPosting", "publish", "logPosted", "logFailed", "final"} =>
                  Len(tk.results) = tk.idx - 1
            /\ tk.pc = "publish" =>
                  /\ Len(tk.outcomes) = tk.platIdx - 1
                  /\ Len(tk.logged) = tk.platIdx - 1
                  /\ \A i \in 1..Len(tk.logged) :
                        tk.logged[i].platform = CurrentPost(tk).platforms[i]

\* C22 witness: the invocation for the later of two due posts is in flight,
\* the earlier post having had its final write.
C22_Witness ==
    \E t \in TickIds :
        /\ ticks[t].pc = "publish"
        /\ ticks[t].idx = 2
        /\ Len(ticks[t].results) = 1
        /\ ticks[t].batch[1].scheduled_time < ticks[t].batch[2].scheduled_time

\* C23: a post is set to posting before any publisher is invoked for it, and
\* whenever a publisher call for a post is in flight the post's stored status
\* is posting.
C23_PostingWhileInFlight ==
    \A t \in TickIds :
        ticks[t].pc = "publish" =>
            RowOf(posts, CurrentPost(ticks[t]).id).status = "posting"

\* The posted rows the history holds for post `id`.
PostedRows(hist, id) ==
    {k \in 1..Len(hist) : hist[k].post_id = id /\ hist[k].status = "posted"}

\* C24: once a publisher has returned Delivered for a post, no publisher is
\* invoked for that post again by a later run: a publisher call for a post
\* begins only when every posted row the history holds for the post was
\* appended by the run that makes the call.
C24_NoRepeatedDelivery ==
    [][\A t \in TickIds :
          (ticks[t].pc # "publish" /\ ticks'[t].pc = "publish") =>
              Cardinality(PostedRows(history', CurrentPost(ticks'[t]).id))
                  = Count(ticks'[t].outcomes, "Delivered")]_vars

\* C25: a post that was deleted through DELETE /api/posts/:id is never
\* published afterwards: no publisher call is in flight, and no history
\* insert is awaited, for a post whose row is no longer in the posts table.
C25_DeletedNeverPublished ==
    \A t \in TickIds :
        ticks[t].pc \in {"publish", "logPosted", "logFailed"} =>
            CurrentPost(ticks[t]).id \in DOMAIN posts

\* C26: a post rescheduled for retry is not dispatched again before the retry
\* delay has elapsed since the reschedule: a dispatch cycle begins for a post
\* (its status is written posting) only when the clock has reached the
\* scheduled_time the post's row carries, which for a rescheduled post is the
\* instant of the reschedule plus the retry delay.
C26_RetryDelayElapsed ==
    [][\A t \in TickIds :
          (ticks[t].pc = "setPosting" /\ ticks'[t].pc # "setPosting"
           /\ CurrentPost(ticks[t]).id \in DOMAIN posts) =>
              posts[CurrentPost(ticks[t]).id].scheduled_time <= clock]_vars

\* C27: in every reachable state a post's posted_at is non-null if and only
\* if its status is posted, and a posted post carries no error summary.
C27_PostedAtIffPosted ==
    \A id \in DOMAIN posts :
        /\ (posts[id].posted_at # NoTime) <=> (posts[id].status = "posted")
        /\ posts[id].status = "posted" => posts[id].error_message = NoError

\* C28: a platform tag that is neither twitter nor linkedin is handled as a
\* rejected attempt for that entry: no publisher call is ever in flight for
\* it, the run appends a failed history row with the "Unknown platform"
\* message for it, the run attempts every entry of the list, and its final
\* write never leaves the post posted.
C28_UnknownPlatformRejected ==
    /\ \A t \in TickIds :
          ticks[t].pc = "publish" =>
              CurrentPost(ticks[t]).platforms[ticks[t].platIdx] \in {"twitter", "linkedin"}
    /\ \A r \in AllResults :
          \A i \in 1..Len(r.post.platforms) :
              r.post.platforms[i] \notin {"twitter", "linkedin"} =>
                  /\ Len(r.outcomes) = Len(r.post.platforms)
                  /\ r.outcomes[i] = "Unknown"
                  /\ r.logged[i] = [post_id |-> r.post.id,
                                    platform |-> r.post.platforms[i],
                                    status |-> "failed",
                                    error_message |-> "Unknown platform"]
                  /\ r.after.status # "posted"

\* C28 witness: a post listing an unknown tag before twitter was delivered on
\* twitter and written partial.
C28_Witness ==
    \E r \in AllResults :
        /\ r.post.platforms = <<"mastodon", "twitter">>
        /\ r.outcomes = <<"Unknown", "Delivered">>
        /\ r.after.status = "partial"

====
